---- MODULE Spec2Model ----
(***************************************************************************)
(* State-machine model of bindings/python/muniverse/env.py: the Env        *)
(* facade (construction, reset, close) on top of a Handle.  The Handle     *)
(* class lives in muniverse/handle.py; it is modelled from the contract    *)
(* the specification gives for the Transport and for checked_call          *)
(* (sections 4.1, 4.3 and 7).  Spec runs Env against a Handle and a backend *)
(* that keep that contract; SpecFaulty adds the two behaviours outside it   *)
(* that the facade can meet: a Handle.close() that raises, and a create     *)
(* result without the UID key.                                              *)
(***************************************************************************)
EXTENDS Integers, Sequences, FiniteSets, TLC

\* ------------------------------------------------------------------ bounds
\* Number of Env constructions that get as far as Handle() (each is a fresh
\* Python object with a fresh Handle).
MaxEnvs == 2
\* Number of times Env.close is run on one Env object.
MaxCloses == 2
\* Number of threads that call reset/close on one Env concurrently, and the
\* number of operations each of them runs.
MaxThreads == 2
MaxThreadOps == 2

\* ------------------------------------------------------------ input domains
\* Python's None, for the optional constructor arguments and self.handle.
None == "None"
\* The attribute self.uid before line 42 has assigned it.
NoUID == "NoUID"
\* self.handle = None (line 39), and the local `handle` before line 40.
NoHandle == 0

Specs == {"X", "Y"}
Containers == {None, "c"}
ChromeHosts == {None, "h"}
GameHosts == {None, "g"}
UIDs == {"42", "7"}
Messages == {"unknown spec", "bad uid"}

EnvIds == 1..MaxEnvs
HandleIds == 1..MaxEnvs
Threads == 1..MaxThreads

\* ------------------------------------------------------------------ errors
NoError == [kind |-> "none", msg |-> ""]
\* raise ValueError(...), lines 27 and 29.
ValueErrorHosts == [kind |-> "Configuration", msg |-> "must set both chrome_host and game_host"]
ValueErrorMix == [kind |-> "Configuration", msg |-> "cannot mix chrome_host and container options"]
\* KeyError raised by ['UID'] on a result without that key, line 42.
KeyErrorUID == [kind |-> "KeyError", msg |-> "UID"]
\* The conditions checked_call and close fail with.
BackendError(m) == [kind |-> "Backend", msg |-> m]
TransportError == [kind |-> "Transport", msg |-> "transport failed"]
UsageError == [kind |-> "Usage", msg |-> "handle is closed"]
CloseError == [kind |-> "Transport", msg |-> "close failed"]

\* ------------------------------------------------------- Handle (handle.py)
EmptyMap == [k \in {} |-> None]

\* A Handle: its transport state and the number of times its process/socket
\* was released (the termination signals the backend observes).
NewHandle == [tstate |-> "notstarted", released |-> 0]
NoSuchHandle == [tstate |-> "absent", released |-> 0]

\* An invocation made on a Handle, recorded with the verb, the UID its
\* arguments carry (NoUID: none) and eff, whether it reached the transport:
\* a request was put on the wire (call), the process/socket was released
\* (close).
Tag(args) == IF "UID" \in DOMAIN args THEN args["UID"] ELSE NoUID
CallEvent(name, args, eff) == [op |-> "call", name |-> name, uid |-> Tag(args), eff |-> eff]
CloseEvent(eff) == [op |-> "close", name |-> "close", uid |-> NoUID, eff |-> eff]

\* What the backend and the transport do with one call: a success payload
\* (with the UID the backend assigned, or without one), a failure payload
\* with its message, or a transport failure.
NoResponse == [type |-> "none", uid |-> NoUID, msg |-> ""]
Responses ==
    {[type |-> "result", uid |-> u, msg |-> ""] : u \in UIDs \cup {NoUID}}
    \cup {[type |-> "failure", uid |-> NoUID, msg |-> m] : m \in Messages}
    \cup {[type |-> "transport", uid |-> NoUID, msg |-> ""]}

\* The success payload: a flat mapping, holding UID when the backend sent one.
Payload(resp) == IF resp.uid = NoUID THEN EmptyMap ELSE ("UID" :> resp.uid)

\* Handle.checked_call(name, args) on handle state h, the backend answering
\* resp.  A closed handle rejects the call locally; a broken transport fails
\* every later call; otherwise the transport is started on first use, the
\* request is sent and the response decides the outcome.
CheckedCall(h, name, args, resp) ==
    IF h.tstate = "closed"
    THEN [handle |-> h, event |-> CallEvent(name, args, FALSE),
          err |-> UsageError, result |-> EmptyMap]
    ELSE IF h.tstate = "broken"
    THEN [handle |-> h, event |-> CallEvent(name, args, FALSE),
          err |-> TransportError, result |-> EmptyMap]
    ELSE IF resp.type = "transport"
    THEN [handle |-> [h EXCEPT !.tstate = "broken"],
          event |-> CallEvent(name, args, h.tstate = "running"),
          err |-> TransportError, result |-> EmptyMap]
    ELSE IF resp.type = "failure"
    THEN [handle |-> [h EXCEPT !.tstate = "running"],
          event |-> CallEvent(name, args, TRUE),
          err |-> BackendError(resp.msg), result |-> EmptyMap]
    ELSE [handle |-> [h EXCEPT !.tstate = "running"],
          event |-> CallEvent(name, args, TRUE),
          err |-> NoError, result |-> Payload(resp)]

\* Handle.close() on handle state h: releases the process/socket once; a
\* second close is a no-op.  The release is best effort: it may report a
\* transport error (fails) after the resource is gone.
HandleClose(h, fails) ==
    IF h.tstate \in {"closed", "notstarted"}
    THEN [handle |-> [h EXCEPT !.tstate = "closed"],
          event |-> CloseEvent(FALSE), err |-> NoError]
    ELSE [handle |-> [tstate |-> "closed", released |-> h.released + 1],
          event |-> CloseEvent(TRUE),
          err |-> IF fails THEN CloseError ELSE NoError]

\* --------------------------------------------------------------- variables
VARIABLES env, handles, nextHandle, last

vars == <<env, handles, nextHandle, last>>

\* The callers of one Env's operations, for the runs in which they overlap:
\* thr[t] is where thread t stands inside reset/close, queue the threads
\* blocked on the Handle's lock in arrival order, lock the thread whose
\* call is in flight (NoThread: none).
VARIABLES thr, queue, lock

callers == <<thr, queue, lock>>
allvars == <<env, handles, nextHandle, last, thr, queue, lock>>

NoThread == 0
IdleThread == [pc |-> "idle", op |-> "none", done |-> 0, err |-> NoError]
NoCallers ==
    /\ thr = [t \in Threads |-> IdleThread]
    /\ queue = <<>>
    /\ lock = NoThread

NoArgs == [spec |-> None, container |-> None, chrome_host |-> None, game_host |-> None]
NoCall == [name |-> "none", args |-> EmptyMap]
\* An Env object before its construction.
UnmadeEnv == [made |-> FALSE, handle |-> NoHandle, uid |-> NoUID, closes |-> 0]
\* The latest operation as its caller sees it: args are the constructor's
\* arguments, call the call it issued, local the Handle it constructed
\* (line 40), events the invocations it made on its Handle, in order, err
\* what it raised (NoError when it returned), callErr what checked_call
\* raised, closeErr what handle.close() raised, resp what the backend
\* answered to the call.
NoOutcome == [op |-> "none", env |-> 0, args |-> NoArgs, call |-> NoCall,
             resp |-> NoResponse, local |-> NoHandle, events |-> <<>>,
             err |-> NoError, callErr |-> NoError, closeErr |-> NoError]

Init ==
    /\ env = [e \in EnvIds |-> UnmadeEnv]
    /\ handles = [h \in HandleIds |-> NoSuchHandle]
    /\ nextHandle = 1
    /\ last = NoOutcome
    /\ NoCallers

\* ------------------------------------------------------------ Env.__init__
\* Validate without the check of lines 26-27.
ValidateNoPairCheck(container, chrome_host, game_host) ==
    IF (container # None) /\ (chrome_host # None) THEN ValueErrorMix
    ELSE NoError

\* Validate without the check of lines 28-29.
ValidateNoMixCheck(container, chrome_host, game_host) ==
    IF (chrome_host = None) # (game_host = None) THEN ValueErrorHosts
    ELSE NoError

\* Lines 26-29: the option checks, as the error raised (NoError: none).
Validate(container, chrome_host, game_host) ==
    IF (chrome_host = None) # (game_host = None) THEN ValueErrorHosts
    ELSE IF (container # None) /\ (chrome_host # None) THEN ValueErrorMix
    ELSE NoError

\* CreateCall with line 34 left out: the container goes out under NewEnv.
CreateCallKeepsName(spec, container, chrome_host, game_host) ==
    IF container # None
    THEN [name |-> "NewEnv",
          args |-> ("Spec" :> spec) @@ ("Container" :> container)]
    ELSE IF chrome_host # None
    THEN [name |-> "NewEnvChrome",
          args |-> ("Spec" :> spec) @@ ("Host" :> chrome_host) @@ ("GameHost" :> game_host)]
    ELSE [name |-> "NewEnv", args |-> ("Spec" :> spec)]

\* Lines 30-38: the create call's name and arguments.
CreateCall(spec, container, chrome_host, game_host) ==
    IF container # None
    THEN [name |-> "NewEnvContainer",
          args |-> ("Spec" :> spec) @@ ("Container" :> container)]
    ELSE IF chrome_host # None
    THEN [name |-> "NewEnvChrome",
          args |-> ("Spec" :> spec) @@ ("Host" :> chrome_host) @@ ("GameHost" :> game_host)]
    ELSE [name |-> "NewEnv", args |-> ("Spec" :> spec)]

\* FreshHandle handing out the Handle of the construction before, as a
\* Handle kept at module level would.
SharedHandle == IF nextHandle > 1 THEN nextHandle - 1 ELSE nextHandle

\* Line 40: Handle() makes a Handle of its own for every Env.
FreshHandle == nextHandle

\* Line42Error with .get('UID') for ['UID']: a missing key raises nothing.
Line42ErrorGet(r) == r.err

\* Line 42: checked_call(...)['UID'], as the error the line raises.
Line42Error(r) ==
    IF r.err # NoError THEN r.err
    ELSE IF "UID" \in DOMAIN r.result THEN NoError
    ELSE KeyErrorUID

\* Line 42: the value assigned to self.uid when the line raises nothing
\* (the key is present then).
Line42Value(r) == IF "UID" \in DOMAIN r.result THEN r.result["UID"] ELSE NoUID

\* InitFinally without the close of line 46.
InitFinallyLeak(h, raised, fails) == [handle |-> h, events |-> <<>>, err |-> NoError]

\* InitFinally with the test of line 45 inverted.
InitFinallyInverted(h, raised, fails) ==
    IF raised = NoError
    THEN LET c == HandleClose(h, fails)
         IN  [handle |-> c.handle, events |-> <<c.event>>, err |-> c.err]
    ELSE [handle |-> h, events |-> <<>>, err |-> NoError]

\* InitFinally without the test of line 45: the handle is always closed.
InitFinallyAlways(h, raised, fails) ==
    LET c == HandleClose(h, fails)
    IN  [handle |-> c.handle, events |-> <<c.event>>, err |-> c.err]

\* Lines 44-46: the finally block; self.handle is None exactly when line 42
\* raised, and then the local handle is closed.
InitFinally(h, raised, fails) ==
    IF raised # NoError
    THEN LET c == HandleClose(h, fails)
         IN  [handle |-> c.handle, events |-> <<c.event>>, err |-> c.err]
    ELSE [handle |-> h, events |-> <<>>, err |-> NoError]

\* An exception raised inside a finally block replaces the one in flight.
Propagate(inFlight, fromFinally) ==
    IF fromFinally # NoError THEN fromFinally ELSE inFlight

\* Env(spec, container, chrome_host, game_host), lines 26-46, for object e.
\* A constructor that raises at lines 27/29 leaves nothing behind.
EnvInit(e, spec, container, chrome_host, game_host, resp, fails) ==
    LET args == [spec |-> spec, container |-> container,
                 chrome_host |-> chrome_host, game_host |-> game_host]
        verr == Validate(container, chrome_host, game_host)
    IN  /\ ~env[e].made
        /\ \A d \in EnvIds : d < e => env[d].made
        /\ IF verr # NoError
           THEN /\ last' = [NoOutcome EXCEPT !.op = "create", !.env = e,
                                             !.args = args, !.err = verr]
                /\ UNCHANGED <<env, handles, nextHandle>>
           ELSE LET call == CreateCall(spec, container, chrome_host, game_host)
                    hid == FreshHandle
                    r == CheckedCall(NewHandle, call.name, call.args, resp)
                    raised == Line42Error(r)
                    f == InitFinally(r.handle, raised, fails)
                IN  /\ nextHandle' = nextHandle + 1
                    /\ handles' = [handles EXCEPT ![hid] = f.handle]
                    /\ env' = [env EXCEPT ![e] =
                                 [made |-> TRUE, closes |-> 0,
                                  handle |-> IF raised = NoError THEN hid ELSE NoHandle,
                                  uid |-> IF raised = NoError THEN Line42Value(r) ELSE NoUID]]
                    /\ last' = [op |-> "create", env |-> e, args |-> args,
                                call |-> call, resp |-> resp, local |-> hid,
                                events |-> <<r.event>> \o f.events,
                                err |-> Propagate(raised, f.err),
                                callErr |-> r.err, closeErr |-> f.err]

\* --------------------------------------------------------------- Env.reset
\* The caller holds an Env object only when its constructor returned.
Born(e) == env[e].made /\ env[e].handle # NoHandle

\* ResetCall without the UID argument.
ResetCallUntagged(e) == [name |-> "Reset", args |-> EmptyMap]

\* Line 52: the call reset issues.
ResetCall(e) == [name |-> "Reset", args |-> ("UID" :> env[e].uid)]

\* ResetSteps re-raising whatever the call raised as a backend error.
ResetStepsWrapsError(h, call, resp) ==
    LET r == CheckedCall(h, call.name, call.args, resp)
    IN  [handle |-> r.handle, events |-> <<r.event>>,
         err |-> IF r.err = NoError THEN NoError ELSE BackendError(r.err.msg),
         callErr |-> r.err]

\* ResetSteps closing the handle when the call raised.
ResetStepsClosesOnError(h, call, resp) ==
    LET r == CheckedCall(h, call.name, call.args, resp)
        c == HandleClose(r.handle, FALSE)
    IN  IF r.err = NoError
        THEN [handle |-> r.handle, events |-> <<r.event>>, err |-> r.err, callErr |-> r.err]
        ELSE [handle |-> c.handle, events |-> <<r.event, c.event>>,
              err |-> r.err, callErr |-> r.err]

\* ResetSteps issuing the call a second time when the first one raised.
ResetStepsRetries(h, call, resp) ==
    LET r == CheckedCall(h, call.name, call.args, resp)
        q == CheckedCall(r.handle, call.name, call.args, resp)
    IN  IF r.err = NoError
        THEN [handle |-> r.handle, events |-> <<r.event>>, err |-> r.err, callErr |-> r.err]
        ELSE [handle |-> q.handle, events |-> <<r.event, q.event>>,
              err |-> q.err, callErr |-> q.err]

\* Line 52 on handle state h: the one call, its error propagating unchanged.
ResetSteps(h, call, resp) ==
    LET r == CheckedCall(h, call.name, call.args, resp)
    IN  [handle |-> r.handle, events |-> <<r.event>>, err |-> r.err, callErr |-> r.err]

\* Env.reset(), line 52.
EnvReset(e, resp) ==
    /\ Born(e)
    /\ LET hid == env[e].handle
           call == ResetCall(e)
           r == ResetSteps(handles[hid], call, resp)
       IN  /\ handles' = [handles EXCEPT ![hid] = r.handle]
           /\ last' = [NoOutcome EXCEPT !.op = "reset", !.env = e,
                                        !.call = call, !.resp = resp,
                                        !.events = r.events,
                                        !.err = r.err, !.callErr = r.callErr]
    /\ UNCHANGED <<env, nextHandle>>

\* --------------------------------------------------------------- Env.close
\* CloseFinally as a plain statement after the call: skipped when it raises.
CloseFinallyOnSuccess(h, raised, fails) ==
    IF raised = NoError
    THEN LET c == HandleClose(h, fails)
         IN  [handle |-> c.handle, events |-> <<c.event>>, err |-> c.err]
    ELSE [handle |-> h, events |-> <<>>, err |-> NoError]

\* CloseFinally without the handle.close() of line 63.
CloseFinallyNever(h, raised, fails) == [handle |-> h, events |-> <<>>, err |-> NoError]

\* Lines 62-63: the finally block of close runs on every exit of the try.
CloseFinally(h, raised, fails) ==
    LET c == HandleClose(h, fails)
    IN  [handle |-> c.handle, events |-> <<c.event>>, err |-> c.err]

\* Line 61: the call close issues.
CloseCall(e) == [name |-> "CloseEnv", args |-> ("UID" :> env[e].uid)]

\* CloseSteps with the two statements in the other order: close, then call.
CloseStepsCloseFirst(h, call, resp, fails) ==
    LET f == CloseFinally(h, NoError, fails)
        r == CheckedCall(f.handle, call.name, call.args, resp)
    IN  [handle |-> r.handle, events |-> f.events \o <<r.event>>,
         err |-> Propagate(r.err, f.err), callErr |-> r.err, closeErr |-> f.err]

\* CloseSteps behind a guard that returns at once on a closed handle.
CloseStepsGuarded(h, call, resp, fails) ==
    LET r == CheckedCall(h, call.name, call.args, resp)
        f == CloseFinally(r.handle, r.err, fails)
    IN  IF h.tstate = "closed"
        THEN [handle |-> h, events |-> <<>>, err |-> NoError,
              callErr |-> NoError, closeErr |-> NoError]
        ELSE [handle |-> f.handle, events |-> <<r.event>> \o f.events,
              err |-> Propagate(r.err, f.err), callErr |-> r.err, closeErr |-> f.err]

\* Lines 60-63 on handle state h: the call, then the finally block.
CloseSteps(h, call, resp, fails) ==
    LET r == CheckedCall(h, call.name, call.args, resp)
        f == CloseFinally(r.handle, r.err, fails)
    IN  [handle |-> f.handle, events |-> <<r.event>> \o f.events,
         err |-> Propagate(r.err, f.err), callErr |-> r.err, closeErr |-> f.err]

\* Env.close(), lines 60-63.
EnvClose(e, resp, fails) ==
    /\ Born(e)
    /\ env[e].closes < MaxCloses
    /\ LET hid == env[e].handle
           call == CloseCall(e)
           c == CloseSteps(handles[hid], call, resp, fails)
       IN  /\ handles' = [handles EXCEPT ![hid] = c.handle]
           /\ last' = [NoOutcome EXCEPT !.op = "close", !.env = e,
                                        !.call = call, !.resp = resp,
                                        !.events = c.events, !.err = c.err,
                                        !.callErr = c.callErr, !.closeErr = c.closeErr]
           /\ env' = [env EXCEPT ![e].closes = @ + 1]
    /\ UNCHANGED nextHandle

\* ----------------------------------------------------------- specification
\* Reset and CloseEnv return an empty result.
EmptyResponses == {r \in Responses : r.uid = NoUID}
\* A create call's result holds the UID (section 6, the RPC surface).
CreateResponses == {r \in Responses : r.type = "result" => r.uid # NoUID}

Create ==
    \E e \in EnvIds, spec \in Specs, container \in Containers,
       chrome_host \in ChromeHosts, game_host \in GameHosts,
       resp \in CreateResponses :
        EnvInit(e, spec, container, chrome_host, game_host, resp, FALSE) /\ UNCHANGED callers

Reset == \E e \in EnvIds, resp \in EmptyResponses : EnvReset(e, resp) /\ UNCHANGED callers

Close ==
    \E e \in EnvIds, resp \in EmptyResponses : EnvClose(e, resp, FALSE) /\ UNCHANGED callers

Next == Create \/ Reset \/ Close

Spec == Init /\ [][Next]_vars

\* The same operations against a Handle whose close() may raise and a
\* backend whose create result may lack the UID key.
CreateFaulty ==
    \E e \in EnvIds, spec \in Specs, container \in Containers,
       chrome_host \in ChromeHosts, game_host \in GameHosts,
       resp \in Responses, fails \in BOOLEAN :
        EnvInit(e, spec, container, chrome_host, game_host, resp, fails) /\ UNCHANGED callers

CloseFaulty ==
    \E e \in EnvIds, resp \in EmptyResponses, fails \in BOOLEAN :
        EnvClose(e, resp, fails) /\ UNCHANGED callers

NextFaulty == CreateFaulty \/ Reset \/ CloseFaulty

SpecFaulty == Init /\ [][NextFaulty]_vars

\* ------------------------------------------------ overlapping reset/close
\* Threads share one Live Env.  Env.reset and Env.close take no lock of
\* their own (lines 52, 61): each thread goes straight into
\* handle.checked_call, where the Handle's lock (section 3) admits one call
\* at a time and blocks the others in arrival order (section 4.3).
InitConcurrent ==
    /\ \E u \in UIDs :
           env = [e \in EnvIds |->
                    IF e = 1
                    THEN [made |-> TRUE, handle |-> 1, uid |-> u, closes |-> 0]
                    ELSE UnmadeEnv]
    /\ handles = [h \in HandleIds |->
                    IF h = 1 THEN [NewHandle EXCEPT !.tstate = "running"] ELSE NoSuchHandle]
    /\ nextHandle = 2
    /\ last = NoOutcome
    /\ NoCallers

InQueue(t) == \E i \in DOMAIN queue : queue[i] = t
Leave(t) == SelectSeq(queue, LAMBDA x : x # t)

\* The call of operation op on Env e (lines 52, 61).
OpCall(e, op) == IF op = "close" THEN CloseCall(e) ELSE ResetCall(e)

\* Where a thread goes when its call is over: close goes on to its finally
\* block (lines 62-63), reset returns or raises (line 52).
AfterCall(t, op, err) ==
    IF op = "close"
    THEN [thr[t] EXCEPT !.pc = "finally", !.op = op, !.err = err]
    ELSE [thr[t] EXCEPT !.pc = "idle", !.op = op, !.err = err, !.done = @ + 1]

\* A lock that admits a blocked thread whatever the others are doing.
MayAcquireUnlocked(t) == InQueue(t)

\* The Handle's lock admits the thread that has waited longest, once no
\* call is in flight.
MayAcquire(t) == lock = NoThread /\ queue # <<>> /\ Head(queue) = t

\* Thread t calls e.reset() or e.close() and enters checked_call: a closed
\* Handle refuses the call at once, otherwise the thread waits its turn.
ThreadInvoke(t, e, op) ==
    /\ Born(e)
    /\ thr[t].pc = "idle"
    /\ thr[t].done < MaxThreadOps
    /\ IF handles[env[e].handle].tstate = "closed"
       THEN /\ thr' = [thr EXCEPT ![t] = AfterCall(t, op, UsageError)]
            /\ UNCHANGED queue
       ELSE /\ thr' = [thr EXCEPT ![t] = [@ EXCEPT !.pc = "waiting", !.op = op, !.err = NoError]]
            /\ queue' = Append(queue, t)
    /\ UNCHANGED <<env, handles, nextHandle, last, lock>>

\* Thread t gets the lock and sends its request, unless the transport was
\* closed or broke while it waited.
ThreadSend(t, e) ==
    /\ Born(e)
    /\ thr[t].pc = "waiting"
    /\ MayAcquire(t)
    /\ queue' = Leave(t)
    /\ LET h == handles[env[e].handle]
           call == OpCall(e, thr[t].op)
       IN  IF h.tstate \in {"closed", "broken"}
           THEN /\ thr' = [thr EXCEPT ![t] =
                             AfterCall(t, thr[t].op,
                                       CheckedCall(h, call.name, call.args, NoResponse).err)]
                /\ UNCHANGED lock
           ELSE /\ thr' = [thr EXCEPT ![t].pc = "inflight"]
                /\ lock' = t
    /\ UNCHANGED <<env, handles, nextHandle, last>>

\* The response to thread t's request arrives (or the transport fails, or
\* was closed under the call) and the lock is given back.
ThreadReceive(t, e, resp) ==
    /\ Born(e)
    /\ thr[t].pc = "inflight"
    /\ LET hid == env[e].handle
           call == OpCall(e, thr[t].op)
           r == CheckedCall(handles[hid], call.name, call.args, resp)
       IN  IF handles[hid].tstate = "closed"
           THEN /\ thr' = [thr EXCEPT ![t] = AfterCall(t, thr[t].op, TransportError)]
                /\ UNCHANGED handles
           ELSE /\ thr' = [thr EXCEPT ![t] = AfterCall(t, thr[t].op, r.err)]
                /\ handles' = [handles EXCEPT ![hid] = r.handle]
    /\ lock' = IF lock = t THEN NoThread ELSE lock
    /\ UNCHANGED <<env, nextHandle, last, queue>>

\* Thread t runs the finally block of close (lines 62-63).
ThreadFinally(t, e) ==
    /\ Born(e)
    /\ thr[t].pc = "finally"
    /\ LET hid == env[e].handle
           f == CloseFinally(handles[hid], thr[t].err, FALSE)
       IN  handles' = [handles EXCEPT ![hid] = f.handle]
    /\ env' = [env EXCEPT ![e].closes = @ + 1]
    /\ thr' = [thr EXCEPT ![t] = [@ EXCEPT !.pc = "idle", !.done = @ + 1]]
    /\ UNCHANGED <<nextHandle, last, queue, lock>>

Invoke == \E t \in Threads, e \in EnvIds, op \in {"reset", "close"} : ThreadInvoke(t, e, op)

Send == \E t \in Threads, e \in EnvIds : ThreadSend(t, e)

Receive == \E t \in Threads, e \in EnvIds, resp \in EmptyResponses : ThreadReceive(t, e, resp)

Finally == \E t \in Threads, e \in EnvIds : ThreadFinally(t, e)

NextConcurrent == Invoke \/ Send \/ Receive \/ Finally

SpecConcurrent == InitConcurrent /\ [][NextConcurrent]_allvars

\* The threads whose request is on the wire, awaiting its response.
Awaiting == {t \in Threads : thr[t].pc = "inflight"}

\* ------------------------------------------------------------ derived state
\* The lifecycle state of Env object e (section 4.4): Unborn until its
\* constructor returns, Closed once Env.close has run on it.
EnvState(e) ==
    IF ~Born(e) THEN "Unborn"
    ELSE IF env[e].closes > 0 THEN "Closed"
    ELSE "Live"

\* A Handle that was constructed and whose close() has not run.
Open(h) == handles[h].tstate \in {"notstarted", "running", "broken"}

\* Exactly one of chrome_host/game_host is given.
OneHost(a) == (a.chrome_host = None) # (a.game_host = None)

\* ------------------------------------------------------------------- claims
\* C1: a construction either returns with a UID and the Env Live, or raises
\* a Configuration/Transport/Backend error and leaves its Handle closed; and
\* after any sequence of constructions the open Handles are exactly the
\* Handles held by Live Envs.
C1_CreateLeavesNoLeak ==
    /\ {h \in HandleIds : Open(h)}
         = {env[e].handle : e \in {d \in EnvIds : EnvState(d) = "Live"}}
    /\ last.op = "create" =>
         \/ /\ last.err = NoError
            /\ EnvState(last.env) = "Live"
            /\ env[last.env].uid \in UIDs
         \/ /\ last.err.kind \in {"Configuration", "Transport", "Backend"}
            /\ ~Born(last.env)
            /\ last.local # NoHandle => ~Open(last.local)

\* Two constructions in a row have failed after Handle() and nothing is open.
C1_Witness ==
    /\ nextHandle = 3
    /\ env[1].made /\ ~Born(1)
    /\ env[2].made /\ ~Born(2)
    /\ last.op = "create" /\ last.err.kind = "Transport"
    /\ \A h \in HandleIds : ~Open(h)

\* C2: when the create call fails (the transport cannot be started, or the
\* backend answers a failure payload), the constructor closes the Handle
\* after the call and raises the call's error, the Backend error carrying
\* the backend's message verbatim; the Env holds no Handle and is Unborn,
\* and an Env whose construction failed never becomes Live.
C2_FailedState ==
    (last.op = "create" /\ last.callErr # NoError) =>
        /\ last.err = last.callErr
        /\ last.resp.type = "failure" =>
               last.err = [kind |-> "Backend", msg |-> last.resp.msg]
        /\ Len(last.events) = 2
        /\ last.events[1].op = "call" /\ last.events[2].op = "close"
        /\ handles[last.local].tstate = "closed"
        /\ env[last.env].handle = NoHandle
        /\ EnvState(last.env) = "Unborn"

C2_FailedStep ==
    \A e \in EnvIds : (env[e].made /\ ~Born(e)) => (env'[e].made /\ env'[e].handle = NoHandle)

C2_FailedCreateClosesHandle == []C2_FailedState /\ [][C2_FailedStep]_vars

\* NewEnv was answered with the failure payload "unknown spec".
C2_Witness ==
    /\ last.op = "create"
    /\ last.call.name = "NewEnv"
    /\ last.resp.type = "failure" /\ last.resp.msg = "unknown spec"
    /\ last.err = [kind |-> "Backend", msg |-> "unknown spec"]
    /\ handles[last.local].released = 1

\* C3: Env.close issues the CloseEnv call first and then invokes
\* handle.close(), whether the call returned or raised.
C3_CloseCallThenHandleClose ==
    last.op = "close" =>
        /\ Len(last.events) = 2
        /\ last.events[1].op = "call" /\ last.events[1].name = "CloseEnv"
        /\ last.events[2].op = "close"

\* The CloseEnv call failed with a Backend error and the Handle was released.
C3_Witness ==
    /\ last.op = "close"
    /\ last.callErr.kind = "Backend"
    /\ Len(last.events) = 2
    /\ last.events[2].op = "close" /\ last.events[2].eff

\* C4: once Env.close has run (returned or raised), the Handle's transport
\* is closed and was released exactly once; no Handle is released twice.
C4_ReleasedExactlyOnce ==
    /\ \A e \in EnvIds :
         (Born(e) /\ env[e].closes > 0) =>
             /\ handles[env[e].handle].tstate = "closed"
             /\ handles[env[e].handle].released = 1
    /\ \A h \in HandleIds : handles[h].released <= 1

\* Env.close raised the CloseEnv call's error and the release happened.
C4_Witness ==
    /\ last.op = "close"
    /\ last.err # NoError
    /\ env[last.env].closes = 1
    /\ handles[env[last.env].handle].released = 1

\* C5: with exactly one of chrome_host/game_host, the constructor raises a
\* Configuration error: no Handle is constructed, no call is issued, no Env
\* object results.
C5_OneHostIsConfigurationError ==
    (last.op = "create" /\ OneHost(last.args)) =>
        /\ last.err.kind = "Configuration"
        /\ last.local = NoHandle
        /\ last.call = NoCall
        /\ last.events = <<>>
        /\ ~env[last.env].made

\* chrome_host alone, with a container, was rejected.
C5_Witness ==
    /\ last.op = "create"
    /\ last.args.chrome_host # None /\ last.args.game_host = None
    /\ last.args.container # None
    /\ last.err = ValueErrorHosts

\* C6: with both container and chrome_host, the constructor raises a
\* Configuration error: no Handle is constructed and no call is issued.
C6_ContainerWithHostIsConfigurationError ==
    (last.op = "create" /\ last.args.container # None /\ last.args.chrome_host # None) =>
        /\ last.err.kind = "Configuration"
        /\ last.local = NoHandle
        /\ last.call = NoCall
        /\ last.events = <<>>
        /\ ~env[last.env].made

\* container, chrome_host and game_host together were rejected.
C6_Witness ==
    /\ last.op = "create"
    /\ last.args.container # None
    /\ last.args.chrome_host # None /\ last.args.game_host # None
    /\ last.err = ValueErrorMix

\* C7: a construction that passes the option checks issues exactly one
\* call, whose verb and argument keys follow the options: NewEnv {Spec},
\* NewEnvContainer {Spec, Container}, NewEnvChrome {Spec, Host, GameHost};
\* the values are the caller's.
C7_CreateCallFollowsOptions ==
    (last.op = "create" /\ last.err.kind # "Configuration") =>
        LET a == last.args
            c == last.call
        IN  /\ c.args["Spec"] = a.spec
            /\ (a.container = None /\ a.chrome_host = None /\ a.game_host = None) =>
                   (c.name = "NewEnv" /\ DOMAIN c.args = {"Spec"})
            /\ a.container # None =>
                   /\ c.name = "NewEnvContainer"
                   /\ DOMAIN c.args = {"Spec", "Container"}
                   /\ c.args["Container"] = a.container
            /\ a.chrome_host # None =>
                   /\ c.name = "NewEnvChrome"
                   /\ DOMAIN c.args = {"Spec", "Host", "GameHost"}
                   /\ c.args["Host"] = a.chrome_host
                   /\ c.args["GameHost"] = a.game_host
            /\ c.name \in {"NewEnv", "NewEnvContainer", "NewEnvChrome"}
            /\ Cardinality({i \in DOMAIN last.events : last.events[i].op = "call"}) = 1
            /\ last.events[1] = CallEvent(c.name, c.args, last.events[1].eff)

\* A container construction of spec "Y" issued NewEnvContainer.
C7_Witness ==
    /\ last.op = "create"
    /\ last.args.spec = "Y" /\ last.args.container = "c"
    /\ last.call.name = "NewEnvContainer"
    /\ last.call.args["Spec"] = "Y"

\* C8: when the create call returns a result with a UID, the constructor
\* returns, the Env has exactly that UID, is Live and holds the Handle it
\* constructed, still open: the only invocation made on it is the call.
C8_SuccessKeepsHandle ==
    (last.op = "create" /\ last.resp.type = "result" /\ last.resp.uid # NoUID) =>
        /\ last.err = NoError
        /\ env[last.env].uid = last.resp.uid
        /\ EnvState(last.env) = "Live"
        /\ env[last.env].handle = last.local
        /\ handles[last.local].tstate = "running"
        /\ handles[last.local].released = 0
        /\ Len(last.events) = 1 /\ last.events[1].op = "call"

\* Spec "X", no container, no host, answered {UID: "42"}.
C8_Witness ==
    /\ last.op = "create"
    /\ last.args = [spec |-> "X", container |-> None, chrome_host |-> None, game_host |-> None]
    /\ last.resp.uid = "42"
    /\ env[last.env].uid = "42"
    /\ EnvState(last.env) = "Live"

\* C9: Env.reset on an Env on which Env.close has run raises a Usage or
\* Backend error, and its Reset call is not accepted: no request is sent.
C9_ResetAfterCloseRaises ==
    (last.op = "reset" /\ env[last.env].closes > 0) =>
        /\ last.err.kind \in {"Usage", "Backend"}
        /\ Len(last.events) = 1
        /\ last.events[1].op = "call" /\ ~last.events[1].eff

\* A reset after a close raised the Usage error.
C9_Witness ==
    /\ last.op = "reset"
    /\ env[last.env].closes > 0
    /\ last.err = UsageError

\* C10: whenever the call issued by create, reset or close fails, the
\* operation raises that call's error, also when handle.close() fails.
C10_CallErrorReachesCaller ==
    last.callErr # NoError => last.err = last.callErr

\* C11: a transport failure is reported as a Transport error: when the
\* backend process exits before answering Reset, Env.reset raises a
\* Transport error; a Backend error is raised only for a failure payload,
\* with its message; and every operation raises an error of the kind its
\* call raised.
C11_TransportNotBackend ==
    /\ (last.op = "reset" /\ last.resp.type = "transport" /\ env[last.env].closes = 0) =>
           last.err = TransportError
    /\ (last.op = "reset" /\ last.err.kind = "Backend") =>
           (last.resp.type = "failure" /\ last.err.msg = last.resp.msg)
    /\ last.callErr # NoError => last.err.kind = last.callErr.kind

\* The Reset request went out on a running transport and no answer came.
C11_Witness ==
    /\ last.op = "reset"
    /\ last.resp.type = "transport"
    /\ last.events[1].eff
    /\ last.err = TransportError
    /\ EnvState(last.env) = "Live"

\* C12: every Reset and CloseEnv call carries exactly the UID the backend
\* returned from the Env's create call, and that UID never changes once the
\* Env is constructed, whatever resets and closes follow.
C12_TaggedState ==
    /\ (last.op = "create" /\ last.err = NoError) =>
           env[last.env].uid = last.resp.uid
    /\ last.op \in {"reset", "close"} =>
           /\ env[last.env].uid \in UIDs
           /\ last.call.args = ("UID" :> env[last.env].uid)
           /\ \A i \in DOMAIN last.events :
                  last.events[i].op = "call" => last.events[i].uid = env[last.env].uid

C12_UidStep == \A e \in EnvIds : Born(e) => env'[e].uid = env[e].uid

C12_CallsCarryCreateUid == []C12_TaggedState /\ [][C12_UidStep]_vars

\* A CloseEnv call tagged "7" failed on an Env created with UID "7".
C12_Witness ==
    /\ last.op = "close"
    /\ last.callErr.kind = "Backend"
    /\ env[last.env].uid = "7"
    /\ last.call = [name |-> "CloseEnv", args |-> ("UID" :> "7")]
    /\ last.events[1].uid = "7"

\* C14: every construction makes a Handle no Env held before, no two Envs
\* hold the same Handle, and an operation on one Env changes no Handle but
\* its own.
C14_DistinctState ==
    /\ \A d, e \in EnvIds : (d # e /\ Born(d) /\ Born(e)) => env[d].handle # env[e].handle
    /\ (last.op = "create" /\ last.local # NoHandle) =>
           \A e \in EnvIds : e # last.env => env[e].handle # last.local

C14_OwnHandleStep ==
    \A h \in HandleIds :
        handles'[h] # handles[h] =>
            IF last'.op = "create"
            THEN h = last'.local /\ handles[h] = NoSuchHandle
            ELSE h = env[last'.env].handle

C14_HandleOwnedByOneEnv == []C14_DistinctState /\ [][C14_OwnHandleStep]_vars

\* One Env was closed and the other is Live, its Handle still running.
C14_Witness ==
    /\ Born(1) /\ Born(2)
    /\ env[1].handle # env[2].handle
    /\ EnvState(1) = "Closed" /\ handles[env[1].handle].tstate = "closed"
    /\ EnvState(2) = "Live" /\ handles[env[2].handle].tstate = "running"

\* C15: Env.reset on a Live Env issues one Reset call and nothing else; the
\* Env stays Live with the same Handle and UID, the Handle is not closed or
\* released, and after a result or a Backend error it is still running.
C15_ResetState ==
    (last.op = "reset" /\ env[last.env].closes = 0) =>
        LET h == env[last.env].handle
        IN  /\ EnvState(last.env) = "Live"
            /\ Open(h)
            /\ handles[h].released = 0
            /\ Len(last.events) = 1
            /\ last.events[1].op = "call" /\ last.events[1].name = "Reset"
            /\ last.callErr.kind \in {"none", "Backend"} => handles[h].tstate = "running"

C15_ResetStep ==
    last'.op = "reset" =>
        /\ env' = env
        /\ handles'[env[last'.env].handle].released = handles[env[last'.env].handle].released

C15_ResetKeepsEnvLive == []C15_ResetState /\ [][C15_ResetStep]_vars

\* A Reset was refused with a Backend error and the Env is still Live.
C15_Witness ==
    /\ last.op = "reset"
    /\ last.err = [kind |-> "Backend", msg |-> "bad uid"]
    /\ EnvState(last.env) = "Live"
    /\ handles[env[last.env].handle].tstate = "running"

\* C16: no call is retried: a construction issues at most one create call
\* (none when the options are rejected), a reset exactly one Reset call and
\* a close exactly one CloseEnv call, also when the call fails.
C16_NoRetry ==
    LET calls == {i \in DOMAIN last.events : last.events[i].op = "call"}
    IN  /\ last.op = "create" =>
               /\ Cardinality(calls) <= 1
               /\ Cardinality(calls) = 1 <=> last.err.kind # "Configuration"
               /\ \A i \in calls : last.events[i].name = last.call.name
        /\ last.op = "reset" =>
               /\ Cardinality(calls) = 1
               /\ \A i \in calls : last.events[i].name = "Reset"
        /\ last.op = "close" =>
               /\ Cardinality(calls) = 1
               /\ \A i \in calls : last.events[i].name = "CloseEnv"

\* A Reset failed with a transport error and was issued once.
C16_Witness ==
    /\ last.op = "reset"
    /\ last.callErr = TransportError
    /\ Len(last.events) = 1
    /\ last.events[1].name = "Reset"

\* C17: a second Env.close on a Closed Env is not stopped by the Env: it
\* issues the CloseEnv call with the same UID on the closed Handle, which
\* sends nothing, and invokes handle.close() again, which releases nothing.
C17_DoubleCloseActsAgain ==
    (last.op = "close" /\ env[last.env].closes >= 2) =>
        /\ last.call = [name |-> "CloseEnv", args |-> ("UID" :> env[last.env].uid)]
        /\ last.events = <<CallEvent("CloseEnv", last.call.args, FALSE), CloseEvent(FALSE)>>
        /\ last.callErr = UsageError
        /\ handles[env[last.env].handle].tstate = "closed"
        /\ handles[env[last.env].handle].released = 1

\* Env.close has run twice on an Env with UID "42".
C17_Witness ==
    /\ last.op = "close"
    /\ env[last.env].closes = 2
    /\ env[last.env].uid = "42"
    /\ Len(last.events) = 2
    /\ last.events[1].uid = "42" /\ last.events[2].op = "close"

\* C18: when the create call returns a result without the UID key, the
\* constructor raises, after closing the Handle, and no Env results; an Env
\* that holds a Handle always has a UID, the one of its create result.
C18_MissingUidFailsCreate ==
    /\ (last.op = "create" /\ last.resp.type = "result" /\ last.resp.uid = NoUID) =>
           /\ last.callErr = NoError
           /\ last.err # NoError
           /\ ~Born(last.env)
           /\ Len(last.events) = 2
           /\ last.events[1].op = "call" /\ last.events[2].op = "close"
           /\ handles[last.local].tstate = "closed"
    /\ \A e \in EnvIds : env[e].handle # NoHandle => env[e].uid \in UIDs
    /\ (last.op = "create" /\ env[last.env].handle # NoHandle) =>
           env[last.env].uid = last.resp.uid

\* NewEnv returned a result without UID and the constructor raised KeyError.
C18_Witness ==
    /\ last.op = "create"
    /\ last.resp.type = "result" /\ last.resp.uid = NoUID
    /\ last.err = KeyErrorUID
    /\ handles[last.local].released = 1
    /\ env[last.env].handle = NoHandle

\* C13: at most one call is in flight per Handle: a thread's request goes
\* out only when no other request awaits its response; a second caller
\* waits in the queue, or is refused at once with a usage error when the
\* Handle is closed; waiting callers are admitted in arrival order.
C13_OneInFlightState ==
    /\ Cardinality(Awaiting) <= 1
    /\ \A t \in Awaiting : lock = t
    /\ \A t \in Threads : thr[t].pc = "waiting" <=> InQueue(t)

C13_AdmitStep ==
    \A t \in Threads :
        /\ (t \in Awaiting' /\ t \notin Awaiting) => (Awaiting = {} /\ Head(queue) = t)
        /\ (InQueue(t) /\ ~InQueue(t)') => Head(queue) = t
        /\ (thr[t].pc = "idle" /\ thr'[t] # thr[t] /\ thr'[t].pc # "waiting") =>
               (thr'[t].err = UsageError /\ handles[env[1].handle].tstate = "closed")

====
